---- MODULE Spec2Model ----
(***************************************************************************)
(* Model of the graph execution engine (src/engine/core.py), of the HTTP   *)
(* handlers that drive it (src/main.py) and of the sample code-review      *)
(* agent (src/agents/sample_agent.py).                                     *)
(*                                                                         *)
(* Granularity: asyncio runs a coroutine without interleaving until it     *)
(* awaits something that suspends.  execute_graph suspends only at         *)
(* "await fn(...)" / "await loop.run_in_executor(...)" (core.py:91-95), so *)
(* one action covers the code from a resumption up to the next suspension  *)
(* (or to the return / re-raise).                                          *)
(*                                                                         *)
(* Object identity: a Run Record holds REFERENCES to the caller's state    *)
(* object and to the call's execution_log list (core.py:78-79, 114-115).   *)
(* A reference is the number of the execute_graph call that owns the       *)
(* object (0: no object / a private list value).                           *)
(***************************************************************************)
EXTENDS Integers, Sequences, FiniteSets, TLC

VARIABLES graphs, runs, calls, node_registry, resp

vars == <<graphs, runs, calls, node_registry, resp>>

\* ---------------------------------------------------------------- bounds
\* MaxObjects: the objects alive in the model: graph definitions, run records
\* that no call has written to (placeholders) and, for every execute_graph
\* call, its frame and the state object its caller built for it.
\* MaxBudget: the largest max_steps a caller passes in Spec.
MaxObjects == 5
MaxBudget == 3

\* ------------------------------------------------------------ basic values
\* Python's None (also what an f-string prints for it).
None == "None"

\* sum(s[lo..hi]), by halves
RECURSIVE SumRange(_, _, _)
SumRange(s, lo, hi) ==
    IF lo > hi THEN 0
    ELSE IF lo = hi THEN s[lo]
    ELSE LET mid == (lo + hi) \div 2
         IN  SumRange(s, lo, mid) + SumRange(s, mid + 1, hi)

SumSeq(s) == SumRange(s, 1, Len(s))

Last(s) == s[Len(s)]

\* dict.get(key) on a mapping modelled as a function: None when absent.
DictGet(d, k) == IF k \in DOMAIN d THEN d[k] ELSE None

\* ------------------------------------------------------------ log lines
\* A log line is the f-string's constant text and its interpolated values.
ExecLine(n) == <<"Executing node: ", n, "">>
ReqLine(cur, nxt) == <<"Node requested next node", cur, nxt>>
ErrLine(msg) == <<"error: ", msg[1], msg[2]>>
\* logger.debug text of core.py:109; it goes to the diagnostic logger only.
TransLine(cur, nxt) == <<"Transitioning from", cur, nxt>>

GraphNotFoundMsg == <<"Graph not found", "">>
NoFunctionMsg(n) == <<"No function mapped for node id", n>>
NotRegisteredMsg(fn) == <<"Function not registered in node registry", fn>>
StepErrorMsg(fn) == <<"step raised", fn>>
NoError == <<"", "">>

\* ------------------------------------------------------------ shared state
\* CodeReviewState (models.py:11-17).  metadata is a dict; its keys used by
\* the agent are fields here (-1 / FALSE: key absent); "visits" counts the
\* mutations made by the generic test steps.
ComplexityDivisor == 200
Q == ComplexityDivisor * 240

NewState(code) ==
    [code_text |-> code, functions |-> <<>>, issues |-> <<>>,
     suggestions |-> <<>>, quality_score |-> 0,
     extracted |-> -1, checked |-> FALSE, issues_found |-> -1,
     finalized |-> FALSE, visits |-> 0]

\* ------------------------------------------------------------ step results
\* What a step callable hands back (core.py:98-107): nothing, a string, a
\* dict with or without a "next" key, or any other value.
RNone == [kind |-> "none", has_next |-> FALSE, v |-> None]
RStr(s) == [kind |-> "str", has_next |-> FALSE, v |-> s]
RDict(nxt) == [kind |-> "dict", has_next |-> TRUE, v |-> nxt]
RDictNoNext == [kind |-> "dict", has_next |-> FALSE, v |-> None]
ROther == [kind |-> "other", has_next |-> FALSE, v |-> None]

\* ------------------------------------------------------------ sample agent
\* code_text is a sequence of lines; a line is its kind, its length in
\* characters and, for a "def" line, the function name it introduces.
DefLine(i) == [kind |-> "def", len |-> 14, name |-> <<"func", i>>]
StmtLine == [kind |-> "stmt", len |-> 9, name |-> <<"", 0>>]
TodoLine == [kind |-> "todo", len |-> 27, name |-> <<"", 0>>]
BlankLine == [kind |-> "blank", len |-> 0, name |-> <<"", 0>>]
NoName == <<"", 0>>
SyntheticMain == <<"synthetic_main", 0>>

FnPart(i, todo_count, lines_per_fn) ==
    <<DefLine(i)>> \o [j \in 1..lines_per_fn |-> StmtLine]
        \o (IF i < todo_count THEN <<TodoLine>> ELSE <<>>) \o <<BlankLine>>

\* make_sample_code of the tests: three functions, joined by "\n".
make_sample_code(todo_count, lines_per_fn) ==
    FnPart(0, todo_count, lines_per_fn) \o FnPart(1, todo_count, lines_per_fn)
        \o FnPart(2, todo_count, lines_per_fn)

\* "".split("\n") is [""]: the default code_text is one empty line.
EmptyCode == <<BlankLine>>

\* len("\n".join(lines))
BodyLen(b) ==
    IF b = <<>> THEN 0 ELSE SumSeq([i \in 1..Len(b) |-> b[i].len]) + Len(b) - 1

\* len(body.splitlines()): a final line terminator opens no further line.
SplitLinesCount(b) ==
    IF b = <<>> THEN 0 ELSE IF Last(b).len = 0 THEN Len(b) - 1 ELSE Len(b)

HasTodo(b) == \E i \in 1..Len(b) : b[i].kind = "todo"

\* The loop of extract_functions (sample_agent.py:58-69), in closed form: a
\* line starting with "def " opens a function, whose body is the lines up
\* to the next such line (or to the end); lines before the first one are
\* dropped.
DefIndexes(lines) == {i \in 1..Len(lines) : lines[i].kind = "def"}

BodyEnd(lines, d) ==
    LET later == {e \in DefIndexes(lines) : e > d}
    IN  IF later = {} THEN Len(lines)
        ELSE (CHOOSE e \in later : \A e2 \in later : e <= e2) - 1

ExtractLoop(lines) ==
    LET D == DefIndexes(lines)
        nth(k) == CHOOSE d \in D : Cardinality({e \in D : e < d}) = k - 1
    IN  [k \in 1..Cardinality(D) |->
            [name |-> lines[nth(k)].name,
             body |-> SubSeq(lines, nth(k) + 1, BodyEnd(lines, nth(k)))]]

extract_functions(s) ==
    LET found == ExtractLoop(s.code_text)
        funcs == IF found = <<>>
                 THEN <<[name |-> SyntheticMain, body |-> s.code_text]>>
                 ELSE found
    IN  [state |-> [s EXCEPT !.functions = funcs, !.extracted = Len(funcs)],
         result |-> RNone]

\* min(1.0, len(code) / 200.0), in units of 1/Q
complexity_estimator(f) ==
    LET c == (BodyLen(f.body) * Q) \div ComplexityDivisor
    IN  IF c < Q THEN c ELSE Q

check_complexity(s) ==
    LET scores == [i \in 1..Len(s.functions) |-> Q - complexity_estimator(s.functions[i])]
        q == IF scores # <<>> THEN SumSeq(scores) \div Len(scores) ELSE 0
    IN  [state |-> [s EXCEPT !.quality_score = q, !.checked = TRUE],
         result |-> RNone]

LongFunctionLines == 50

issue_detector(f) ==
    (IF HasTodo(f.body) THEN <<"todo">> ELSE <<>>)
        \o (IF SplitLinesCount(f.body) > LongFunctionLines
            THEN <<"long_function">> ELSE <<>>)

RECURSIVE AllIssues(_)
AllIssues(funcs) ==
    IF funcs = <<>> THEN <<>>
    ELSE LET f == Head(funcs)
             found == issue_detector(f)
         IN  [i \in 1..Len(found) |-> [fn |-> f.name, type |-> found[i]]]
                 \o AllIssues(Tail(funcs))

detect_issues(s) ==
    LET all_issues == AllIssues(s.functions)
    IN  [state |-> [s EXCEPT !.issues = all_issues, !.issues_found = Len(all_issues)],
         result |-> RNone]

suggestion_generator(issues) ==
    [i \in 1..Len(issues) |-> <<i, issues[i].type>>]

\* 0.15 and 0.15 * 0.5 of sample_agent.py:139, and the 0.9 of line 143
ImprovementNum == 15
ThresholdNum == 90
Improvement(issues) ==
    IF issues # <<>> THEN (ImprovementNum * Q) \div 100
    ELSE (ImprovementNum * Q) \div 200
Threshold == (ThresholdNum * Q) \div 100

suggest_improvements(s) ==
    LET raised == s.quality_score + Improvement(s.issues)
        q == IF raised < Q THEN raised ELSE Q
    IN  [state |-> [s EXCEPT !.suggestions = @ \o suggestion_generator(s.issues),
                             !.quality_score = q],
         result |-> IF q < Threshold THEN RStr("check") ELSE RNone]

finalize(s) ==
    [state |-> [s EXCEPT !.finalized = TRUE], result |-> RNone]

\* The node functions main.py registers (main.py:31-35).
SampleSteps ==
    {"extract_functions", "check_complexity", "detect_issues",
     "suggest_improvements", "finalize"}

\* The sample graph of main.py:83-96 and of both tests.
SampleGraph ==
    [nodes |-> [n \in {"extract", "check", "detect", "suggest", "end"} |->
                   CASE n = "extract" -> "extract_functions"
                     [] n = "check" -> "check_complexity"
                     [] n = "detect" -> "detect_issues"
                     [] n = "suggest" -> "suggest_improvements"
                     [] n = "end" -> "finalize"],
     edges |-> [n \in {"extract", "check", "detect", "suggest"} |->
                   CASE n = "extract" -> "check"
                     [] n = "check" -> "detect"
                     [] n = "detect" -> "suggest"
                     [] n = "suggest" -> "end"],
     start_node_id |-> "extract"]

\* ------------------------------------------------------------ generic steps
\* Step callables a caller of the engine may register: stepA and stepB
\* return nothing, stepBack always asks for node "A", stepAny may hand back
\* any shape of result, or raise.
GenericSteps == {"stepA", "stepB", "stepBack", "stepAny"}

Touch(s) == [s EXCEPT !.visits = @ + 1]

AnyResults ==
    {RNone, RStr(""), RStr("B"), RStr("C"), RDict("B"), RDict(None),
     RDict(""), RDictNoNext, ROther}

\* The ways a call fn(state, tool_registry) can come back normally: the
\* state the step leaves and the value it returns.
StepOutcomes(fn, s) ==
    CASE fn = "extract_functions" -> {extract_functions(s)}
      [] fn = "check_complexity" -> {check_complexity(s)}
      [] fn = "detect_issues" -> {detect_issues(s)}
      [] fn = "suggest_improvements" -> {suggest_improvements(s)}
      [] fn = "finalize" -> {finalize(s)}
      [] fn \in {"stepA", "stepB"} -> {[state |-> Touch(s), result |-> RNone]}
      [] fn = "stepBack" -> {[state |-> Touch(s), result |-> RStr("A")]}
      [] fn = "stepAny" -> {[state |-> Touch(s), result |-> r] : r \in AnyResults}
      [] OTHER -> {}

\* Whether fn(state, tool_registry) can raise.
StepRaises(fn) == fn = "stepAny"

\* ------------------------------------------------------------ engine
\* Catalogue of the graph definitions callers register in Spec.
Fn1(a, x) == a :> x
Fn2(a, x, b, y) == (a :> x) @@ (b :> y)

\* GChain: a simple chain.  GLoop: B's step always asks for the earlier node
\* "A", against B's default edge.  GAny: A's step may hand back anything;
\* A's default edge leads to "C", which no node mapping has, and "B" is
\* bound to a step name that is not registered.
GChain == [nodes |-> Fn2("A", "stepA", "B", "stepB"),
           edges |-> Fn1("A", "B"), start_node_id |-> "A"]
GLoop == [nodes |-> Fn2("A", "stepA", "B", "stepBack"),
          edges |-> Fn2("A", "B", "B", "B"), start_node_id |-> "A"]
GAny == [nodes |-> Fn2("A", "stepAny", "B", "ghost"),
         edges |-> Fn1("A", "C"), start_node_id |-> "A"]

\* GStray: the start node is no key of the node mapping.
GStray == [nodes |-> Fn1("A", "stepA"), edges |-> Fn1("A", "Z"),
           start_node_id |-> "Z"]

\* GFall: a chain whose last default edge leads to a node id, "C", that the
\* node mapping lacks.
GFall == [nodes |-> Fn2("A", "stepA", "B", "stepB"),
          edges |-> Fn2("A", "B", "B", "C"), start_node_id |-> "A"]

GraphCatalog == {GChain, GLoop, GAny, GStray, GFall}

GraphIds == 1..Len(graphs)
RunIds == 1..Len(runs)
CallIds == 1..Len(calls)

Objects ==
    Len(graphs) + 2 * Len(calls)
        + Cardinality({r \in RunIds : \A c \in CallIds : calls[c].run_id # r})

\* graph_exists (core.py:34-35)
graph_exists(graph_id) == graph_id \in GraphIds

\* The record create_run_placeholder stores (core.py:39-44).
PlaceholderRecord(graph_id) ==
    [graph_id |-> graph_id, state |-> 0,
     log |-> [ref |-> 0, val |-> <<>>], status |-> "created"]

\* The record execute_graph stores before the loop (core.py:62-67); c is the
\* call, whose state object the record refers to.
InitialRecord(graph_id, c) ==
    [graph_id |-> graph_id, state |-> c,
     log |-> [ref |-> 0, val |-> <<>>], status |-> "running"]

\* Variant of StoreRun: for a key the store has, the record is written under
\* the store's latest key instead of the given one.
StoreRun_LastKey(rs, run_id, rec) ==
    IF run_id \in 1..Len(rs) THEN [rs EXCEPT ![Len(rs)] = rec] ELSE Append(rs, rec)

\* self._runs[run_id] = rec: a new key is a new entry, an old key is replaced.
StoreRun(rs, run_id, rec) ==
    IF run_id \in 1..Len(rs) THEN [rs EXCEPT ![run_id] = rec] ELSE Append(rs, rec)

\* The list a record's "log" refers to and the value of the state object it
\* refers to, among the calls cs.
LogIn(cs, rec) == IF rec.log.ref = 0 THEN rec.log.val ELSE cs[rec.log.ref].execution_log
StateIn(cs, rec) == cs[rec.state].state
LogOf(rec) == LogIn(calls, rec)
StateOf(rec) == StateIn(calls, rec)

\* The frame of a call.  pc: "awaiting" (execute_graph is suspended in a step
\* callable), "returned", "raised", "rejected" (run_graph answered 404 or 400
\* without calling execute_graph).  invoked, returns and last_result are
\* history: the nodes whose callable was called, how many of these calls
\* came back, and the latest value one handed back; results is the history
\* of all the values handed back, in order.
NewFrame(c, graph_id, run_id, max_steps, start, state) ==
    [id |-> c, graph_id |-> graph_id, run_id |-> run_id, max_steps |-> max_steps,
     current_node |-> start, steps |-> 0, execution_log |-> <<>>,
     state |-> state, pc |-> "loop", fn |-> None, error |-> NoError,
     invoked |-> <<>>, returns |-> 0, last_result |-> RNone, results |-> <<>>]

\* Variant of LoopCond: an off-by-one test, steps <= max_steps.
LoopCond_OffByOne(current_node, steps, max_steps) ==
    current_node # None /\ steps <= max_steps

\* while current_node is not None and steps < max_steps (core.py:74)
LoopCond(current_node, steps, max_steps) ==
    current_node # None /\ steps < max_steps

\* Variant of FailRecord: the error line is not appended.
FailRecord_NoErrorLine(rec, execution_log, msg) ==
    [rec EXCEPT !.status = "failed", !.log = [ref |-> 0, val |-> execution_log]]

\* The except branch (core.py:119-123): what it writes to the record.
FailRecord(rec, execution_log, msg) ==
    [rec EXCEPT !.status = "failed",
                !.log = [ref |-> 0, val |-> Append(execution_log, ErrLine(msg))]]

\* Variant of CompleteRecord: the status is not written.
CompleteRecord_NoStatus(rec, c) ==
    [rec EXCEPT !.state = c, !.log = [ref |-> c, val |-> <<>>]]

\* The normal exit (core.py:113-115): what it writes to the record.
CompleteRecord(rec, c) ==
    [rec EXCEPT !.status = "completed", !.state = c, !.log = [ref |-> c, val |-> <<>>]]

\* The snapshot at the head of an iteration (core.py:77-79).
SnapshotRecord(rec, c) ==
    [rec EXCEPT !.log = [ref |-> c, val |-> <<>>], !.state = c]

Raise(f, rec, msg) ==
    [f |-> [f EXCEPT !.pc = "raised", !.error = msg],
     rec |-> FailRecord(rec, f.execution_log, msg)]

\* Variant of LoopHead: a node id without a mapping is taken as the step's
\* name itself (nodes.get(current_node, current_node)).
LoopHead_NodeIdAsStep(f, rec, g, registry) ==
    IF LoopCond(f.current_node, f.steps, f.max_steps)
    THEN LET f1 == [f EXCEPT !.steps = @ + 1,
                             !.execution_log = Append(@, ExecLine(f.current_node))]
             rec1 == SnapshotRecord(rec, f.id)
             fn_name == IF f.current_node \in DOMAIN g.nodes
                        THEN g.nodes[f.current_node] ELSE f.current_node
         IN  IF fn_name \notin registry
             THEN Raise(f1, rec1, NotRegisteredMsg(fn_name))
             ELSE [f |-> [f1 EXCEPT !.pc = "awaiting", !.fn = fn_name,
                                    !.invoked = Append(@, f.current_node)],
                   rec |-> rec1]
    ELSE [f |-> [f EXCEPT !.pc = "returned"], rec |-> CompleteRecord(rec, f.id)]

\* From the loop test up to the next suspension, return or raise
\* (core.py:74-95 and 113-123), for frame f and its run's record rec.
LoopHead(f, rec, g, registry) ==
    IF LoopCond(f.current_node, f.steps, f.max_steps)
    THEN LET f1 == [f EXCEPT !.steps = @ + 1,
                             !.execution_log = Append(@, ExecLine(f.current_node))]
             rec1 == SnapshotRecord(rec, f.id)
             fn_name == DictGet(g.nodes, f.current_node)
         IN  IF fn_name = None
             THEN Raise(f1, rec1, NoFunctionMsg(f.current_node))
             ELSE IF fn_name \notin registry
             THEN Raise(f1, rec1, NotRegisteredMsg(fn_name))
             ELSE [f |-> [f1 EXCEPT !.pc = "awaiting", !.fn = fn_name,
                                    !.invoked = Append(@, f.current_node)],
                   rec |-> rec1]
    ELSE [f |-> [f EXCEPT !.pc = "returned"], rec |-> CompleteRecord(rec, f.id)]

\* Variant of NextNode: a default edge, where there is one, wins over the
\* node the step asked for.
NextNode_EdgeFirst(result, current_node, edges) ==
    IF current_node \in DOMAIN edges THEN edges[current_node]
    ELSE IF result.kind = "str" /\ result.v # "" THEN result.v
    ELSE IF result.kind = "dict" /\ result.has_next THEN result.v
    ELSE None

\* Variant of NextNode: a step that returns nothing ends the run.
NextNode_NoDefault(result, current_node, edges) ==
    IF result.kind = "str" /\ result.v # "" THEN result.v
    ELSE IF result.kind = "none" THEN None
    ELSE IF result.kind = "dict" /\ result.has_next THEN result.v
    ELSE DictGet(edges, current_node)

\* The next node chosen from a step's result (core.py:98-107).
NextNode(result, current_node, edges) ==
    IF result.kind = "str" /\ result.v # "" THEN result.v
    ELSE IF result.kind = "none" THEN DictGet(edges, current_node)
    ELSE IF result.kind = "dict" /\ result.has_next THEN result.v
    ELSE DictGet(edges, current_node)

\* Variant of LogAfterResult: a line is appended whatever the step returned.
LogAfterResult_Always(execution_log, result, current_node) ==
    Append(execution_log, ReqLine(current_node, result.v))

\* What handling a result appends to execution_log (core.py:99-101).
LogAfterResult(execution_log, result, current_node) ==
    IF result.kind = "str" /\ result.v # ""
    THEN Append(execution_log, ReqLine(current_node, result.v))
    ELSE execution_log

\* The frame once the awaited step has come back with outcome o and the
\* result is interpreted (core.py:98-110).
AfterStep(f, o, g) ==
    [f EXCEPT !.state = o.state,
              !.last_result = o.result,
              !.results = Append(@, o.result),
              !.returns = @ + 1,
              !.execution_log = LogAfterResult(@, o.result, f.current_node),
              !.current_node = NextNode(o.result, f.current_node, g.edges),
              !.fn = None]

\* ------------------------------------------------------------ actions
\* resp is the response of the request just answered, if the last step was
\* a GetRunState request; NoResp otherwise.  again is history: whether the
\* request answered just before was a GetRunState for the same run id.
NoResp == [run_id |-> 0, code |-> 0, status |-> None, state |-> NewState(<<>>),
           execution_log |-> <<>>, again |-> FALSE]

\* Variant of CreateGraph: the id is not new; the definition is stored under
\* the id of the latest graph, if there is one.
CreateGraph_SameId(g) ==
    /\ Objects < MaxObjects
    /\ graphs' = IF graphs = <<>> THEN <<g>> ELSE [graphs EXCEPT ![Len(graphs)] = g]
    /\ resp' = NoResp
    /\ UNCHANGED <<runs, calls, node_registry>>

\* create_graph (core.py:20-32): a new uuid names the stored definition.
CreateGraph(g) ==
    /\ Objects < MaxObjects
    /\ graphs' = Append(graphs, g)
    /\ resp' = NoResp
    /\ UNCHANGED <<runs, calls, node_registry>>

\* create_run_placeholder (core.py:37-45); graph_id is not looked up.
CreateRunPlaceholder(graph_id) ==
    /\ Objects < MaxObjects
    /\ runs' = Append(runs, PlaceholderRecord(graph_id))
    /\ resp' = NoResp
    /\ UNCHANGED <<graphs, calls, node_registry>>

\* Variant of StartRuns: the record is stored before the graph is looked up.
StartRuns_NoCheck(rs, graph_id, run_id, c) ==
    StoreRun(rs, run_id, InitialRecord(graph_id, c))

\* The run store after execute_graph's entry (core.py:51-67).
StartRuns(rs, graph_id, run_id, c) ==
    IF ~graph_exists(graph_id) THEN rs
    ELSE StoreRun(rs, run_id, InitialRecord(graph_id, c))

\* execute_graph, from the call to its first suspension (core.py:50-95), as
\* call c on run store rs: the call's frame and the run store it leaves.
\* rid is the caller's run_id (0: None, and a new uuid is drawn, core.py:59-60).
execute_graph(rs, c, graph_id, rid, max_steps, state) ==
    LET run_id == IF rid = 0 THEN Len(rs) + 1 ELSE rid
        rs1 == StartRuns(rs, graph_id, run_id, c)
    IN  IF ~graph_exists(graph_id)
        THEN [f |-> [NewFrame(c, graph_id, rid, max_steps, None, state)
                        EXCEPT !.pc = "raised", !.error = GraphNotFoundMsg],
              runs |-> rs1]
        ELSE LET g == graphs[graph_id]
                 f0 == NewFrame(c, graph_id, run_id, max_steps, g.start_node_id, state)
                 r == LoopHead(f0, rs1[run_id], g, node_registry)
             IN  [f |-> r.f, runs |-> [rs1 EXCEPT ![run_id] = r.rec]]

\* A caller of the engine calls execute_graph; a run_id it supplies is one
\* of the store.
ExecuteGraph(graph_id, rid, max_steps, state) ==
    LET c == Len(calls) + 1
        r == execute_graph(runs, c, graph_id, rid, max_steps, state)
    IN  /\ Objects + 1 < MaxObjects
        /\ calls' = Append(calls, r.f)
        /\ runs' = r.runs
        /\ resp' = NoResp
        /\ UNCHANGED <<graphs, node_registry>>

\* The awaited step of call c comes back with outcome o; the engine picks
\* the next node and runs on to its next suspension (core.py:91-118).
StepReturn(c, o) ==
    LET f == calls[c]
        g == graphs[f.graph_id]
        r == LoopHead(AfterStep(f, o, g), runs[f.run_id], g, node_registry)
    IN  /\ f.pc = "awaiting"
        /\ o \in StepOutcomes(f.fn, f.state)
        /\ calls' = [calls EXCEPT ![c] = r.f]
        /\ runs' = [runs EXCEPT ![f.run_id] = r.rec]
        /\ resp' = NoResp
        /\ UNCHANGED <<graphs, node_registry>>

\* The awaited step of call c raises (core.py:91-95, 119-123); what it did
\* to the state object before raising stays.
StepRaise(c) ==
    LET f == calls[c]
        r == Raise([f EXCEPT !.state = Touch(@)], runs[f.run_id], StepErrorMsg(f.fn))
    IN  /\ f.pc = "awaiting"
        /\ StepRaises(f.fn)
        /\ calls' = [calls EXCEPT ![c] = r.f]
        /\ runs' = [runs EXCEPT ![f.run_id] = r.rec]
        /\ resp' = NoResp
        /\ UNCHANGED <<graphs, node_registry>>

\* get_run (core.py:47-48) on run store rs: the record, or None (<<rec>> or
\* <<>>).
get_run(rs, run_id) == IF run_id \in 1..Len(rs) THEN <<rs[run_id]>> ELSE <<>>

\* The response of GET /graph/state/{run_id} (main.py:67-77) for run store rs
\* and calls cs: 404 for an unknown id; run["state"].dict() on a record whose
\* state is None raises AttributeError, which the server answers with 500.
get_run_state(rs, cs, run_id) ==
    LET run == get_run(rs, run_id)
    IN  IF run = <<>> THEN [NoResp EXCEPT !.run_id = run_id, !.code = 404]
        ELSE IF run[1].state = 0 THEN [NoResp EXCEPT !.run_id = run_id, !.code = 500]
        ELSE [run_id |-> run_id, code |-> 200, status |-> run[1].status,
              state |-> StateIn(cs, run[1]), execution_log |-> LogIn(cs, run[1]),
              again |-> FALSE]

RunStateResponse(run_id) == get_run_state(runs, calls, run_id)

\* Variant of RunsAfterGet: the lookup takes the record out of the store's
\* hands, leaving a fresh placeholder under the id (a pop-and-reinsert).
RunsAfterGet_Pop(rs, run_id) ==
    IF run_id \in 1..Len(rs)
    THEN [rs EXCEPT ![run_id] = PlaceholderRecord(rs[run_id].graph_id)]
    ELSE rs

\* The run store after self._runs.get(run_id) (core.py:48): dict.get neither
\* inserts a default for a missing key nor removes or rewrites an entry.
RunsAfterGet(rs, run_id) == rs

GetRunState(run_id) ==
    /\ resp' = [RunStateResponse(run_id)
                    EXCEPT !.again = (resp.code # 0 /\ resp.run_id = run_id)]
    /\ runs' = RunsAfterGet(runs, run_id)
    /\ UNCHANGED <<graphs, calls, node_registry>>

\* ------------------------------------------------------------ Spec
\* The engine used directly, with the generic steps registered; a caller
\* registers each definition of the catalogue once.
Budgets == {1, MaxBudget}

Init ==
    /\ graphs = <<>>
    /\ runs = <<>>
    /\ calls = <<>>
    /\ node_registry = GenericSteps
    /\ resp = NoResp

Next ==
    \/ \E g \in GraphCatalog \ {graphs[i] : i \in GraphIds} : CreateGraph(g)
    \/ \E graph_id \in {0} \cup GraphIds : CreateRunPlaceholder(graph_id)
    \/ \E graph_id \in {0} \cup GraphIds, rid \in {0} \cup RunIds, m \in Budgets :
          ExecuteGraph(graph_id, rid, m, NewState(EmptyCode))
    \/ \E c \in CallIds : \E o \in StepOutcomes(calls[c].fn, calls[c].state) :
          StepReturn(c, o)
    \/ \E c \in CallIds : StepRaise(c)
    \/ \E run_id \in 1..(Len(runs) + 1) : GetRunState(run_id)

Spec == Init /\ [][Next]_vars

\* The engine with steps that come back: a step callable that was invoked
\* hands back a value or raises; the event loop resumes execute_graph when
\* the awaited call is done (core.py:91-95).
MaxCalls == MaxObjects \div 2

StepDone(c) ==
    /\ c \in CallIds
    /\ \/ \E o \in StepOutcomes(calls[c].fn, calls[c].state) : StepReturn(c, o)
       \/ StepRaise(c)

\* The engine's operations that start or advance runs (inspection, which
\* reads only, left out).
NextLive ==
    \/ \E g \in GraphCatalog \ {graphs[i] : i \in GraphIds} : CreateGraph(g)
    \/ \E graph_id \in {0} \cup GraphIds : CreateRunPlaceholder(graph_id)
    \/ \E graph_id \in {0} \cup GraphIds, rid \in {0} \cup RunIds, m \in Budgets :
          ExecuteGraph(graph_id, rid, m, NewState(EmptyCode))
    \/ \E c \in 1..MaxCalls : StepDone(c)

SpecLive == Init /\ [][NextLive]_vars /\ \A c \in 1..MaxCalls : WF_vars(StepDone(c))

\* ------------------------------------------------------------ SpecSample
\* The application of main.py with the sample agent: the engine after the
\* module's registrations (main.py:31-35) and the startup event
\* (main.py:80-98), driven as the tests drive it: requests one at a time,
\* POST /graph/run with the default budget, and the direct call of
\* test_engine_run_direct with max_steps=200.
DefaultMaxSteps == 100
TestMaxSteps == 200

\* Source texts: the inputs of the two tests, a short text with one TODO,
\* and the schema's default, the empty text.
SampleCodes ==
    {make_sample_code(3, 60), make_sample_code(2, 20), make_sample_code(1, 1),
     EmptyCode}

\* initial_state of a RunGraphRequest: a dict CodeReviewState accepts, or one
\* it rejects (main.py:57-60).
InitialStates ==
    {[valid |-> FALSE, code_text |-> EmptyCode]}
        \cup {[valid |-> TRUE, code_text |-> code] : code \in SampleCodes}

Idle == \A c \in CallIds : calls[c].pc # "awaiting"

Rejected(c, graph_id, run_id, code) ==
    [NewFrame(c, graph_id, run_id, DefaultMaxSteps, None, NewState(EmptyCode))
        EXCEPT !.pc = "rejected", !.error = <<"HTTP", code>>]

\* run_graph (main.py:49-64), up to the first suspension of execute_graph.
run_graph(rs, c, graph_id, initial_state) ==
    IF ~graph_exists(graph_id)
    THEN [f |-> Rejected(c, graph_id, 0, "404"), runs |-> rs]
    ELSE LET run_id == Len(rs) + 1
             rs1 == Append(rs, PlaceholderRecord(graph_id))
         IN  IF ~initial_state.valid
             THEN [f |-> Rejected(c, graph_id, run_id, "400"), runs |-> rs1]
             ELSE execute_graph(rs1, c, graph_id, run_id, DefaultMaxSteps,
                                NewState(initial_state.code_text))

RunGraph(graph_id, initial_state) ==
    LET r == run_graph(runs, Len(calls) + 1, graph_id, initial_state)
    IN  /\ Idle
        /\ Objects + 1 < MaxObjects
        /\ calls' = Append(calls, r.f)
        /\ runs' = r.runs
        /\ resp' = NoResp
        /\ UNCHANGED <<graphs, node_registry>>

\* test_engine_run_direct (test_auto.py:58-61): a state built from the
\* code, a placeholder, then execute_graph on it with max_steps=200.
DirectRun(graph_id, code) ==
    LET run_id == Len(runs) + 1
        rs1 == Append(runs, PlaceholderRecord(graph_id))
        r == execute_graph(rs1, Len(calls) + 1, graph_id, run_id, TestMaxSteps,
                           NewState(code))
    IN  /\ Idle
        /\ Objects + 1 < MaxObjects
        /\ calls' = Append(calls, r.f)
        /\ runs' = r.runs
        /\ resp' = NoResp
        /\ UNCHANGED <<graphs, node_registry>>

InitSample ==
    /\ graphs = <<SampleGraph>>
    /\ runs = <<>>
    /\ calls = <<>>
    /\ node_registry = SampleSteps
    /\ resp = NoResp

NextSample ==
    \/ \E graph_id \in {0} \cup GraphIds, init \in InitialStates :
          RunGraph(graph_id, init)
    \/ \E graph_id \in GraphIds, code \in SampleCodes :
          DirectRun(graph_id, code)
    \/ \E c \in CallIds : \E o \in StepOutcomes(calls[c].fn, calls[c].state) :
          StepReturn(c, o)
    \/ \E run_id \in 1..(Len(runs) + 1) : GetRunState(run_id)

SpecSample == InitSample /\ [][NextSample]_vars

\* ------------------------------------------------------------ properties
StatusRank(status) ==
    CASE status = "created" -> 0
      [] status = "running" -> 1
      [] status \in {"completed", "failed"} -> 2

IsExecLine(line) == line[1] = "Executing node: "
IsReqLine(line) == line[1] = "Node requested next node"
IsErrLine(line) == line[1] = "error: "
CountLines(log, P(_)) == Cardinality({i \in 1..Len(log) : P(log[i])})

\* The graph call c runs on is g.
OnGraph(c, g) == graph_exists(calls[c].graph_id) /\ graphs[calls[c].graph_id] = g

\* In this step call c ends by returning / by raising out of the dispatch
\* loop / takes back control from a step callable that returned.
ReturnsNow(c) ==
    /\ calls'[c].pc = "returned"
    /\ c \in CallIds => calls[c].pc # "returned"
FailsNow(c) ==
    /\ calls'[c].pc = "raised"
    /\ calls'[c].error # GraphNotFoundMsg
    /\ c \in CallIds => calls[c].pc # "raised"
StepReturnsNow(c) ==
    /\ c \in CallIds
    /\ calls'[c].returns = calls[c].returns + 1

\* C1: over any sequence of operations a Run Record's status only moves
\* along created -> running -> (completed | failed): no step takes it from
\* completed or failed back to running or created, or from running back to
\* created.
C1_StatusMonotonic ==
    [][\A r \in RunIds : StatusRank(runs'[r].status) >= StatusRank(runs[r].status)]_vars

\* C2: when execute_graph fails inside the dispatch loop (no step name bound
\* to the current node, step name not registered, step callable raises) the
\* run is aborted at once: the record's status becomes failed, its log is
\* the lines logged so far, ending with the failing node's "Executing node"
\* line, followed by exactly one "error" line; nothing is rolled back: the
\* state object keeps every mutation the steps made and the record keeps the
\* state reference of the last snapshot; the call ends raised and no step of
\* it is invoked afterwards.
C2_FailureAborts ==
    [][\A c \in DOMAIN calls' :
          /\ FailsNow(c) =>
                LET f == calls'[c]
                    rec == runs'[f.run_id]
                IN  /\ rec.status = "failed"
                    /\ rec.log = [ref |-> 0,
                                  val |-> Append(f.execution_log, ErrLine(f.error))]
                    /\ Last(f.execution_log) = ExecLine(f.current_node)
                    /\ CountLines(rec.log.val, IsErrLine) = 1
                    /\ c \in CallIds =>
                          SubSeq(f.execution_log, 1, Len(calls[c].execution_log))
                              = calls[c].execution_log
                    /\ rec.state = IF f.error[1] = "step raised"
                                   THEN runs[f.run_id].state ELSE c
                    /\ f.state.visits = f.returns + (IF f.error[1] = "step raised"
                                                     THEN 1 ELSE 0)
          /\ (c \in CallIds /\ calls[c].pc = "raised") => calls'[c] = calls[c]]_vars

C2_Witness ==
    \E c \in CallIds :
        /\ calls[c].pc = "raised"
        /\ calls[c].error = NotRegisteredMsg("ghost")
        /\ calls[c].state.visits = 1
        /\ runs[calls[c].run_id].status = "failed"
        /\ LogOf(runs[calls[c].run_id])
              = <<ExecLine("A"), ReqLine("A", "B"), ExecLine("B"),
                  ErrLine(NotRegisteredMsg("ghost"))>>

\* C3, as claimed: on the loop-back graph execute_graph with budget max_steps
\* returns without raising, completed, after exactly max_steps step
\* invocations, and the returned log has exactly max_steps entries.
C3_LogLengthIsBudget ==
    [][\A c \in DOMAIN calls' :
          (graph_exists(calls'[c].graph_id) /\ graphs[calls'[c].graph_id] = GLoop) =>
              /\ calls'[c].pc # "raised"
              /\ ReturnsNow(c) =>
                    /\ runs'[calls'[c].run_id].status = "completed"
                    /\ Len(calls'[c].invoked) = calls'[c].max_steps
                    /\ Len(calls'[c].execution_log) = calls'[c].max_steps]_vars

\* C3, amended: on the loop-back graph execute_graph with budget max_steps
\* returns without raising, completed, after exactly max_steps step
\* invocations; the returned log has exactly max_steps "Executing node"
\* entries and, besides, one "requested next node" entry for every invocation
\* of the step that asked for the earlier node.
C3_LoopBackBudget ==
    [][\A c \in DOMAIN calls' :
          (graph_exists(calls'[c].graph_id) /\ graphs[calls'[c].graph_id] = GLoop) =>
              /\ calls'[c].pc # "raised"
              /\ ReturnsNow(c) =>
                    LET f == calls'[c]
                        back == Cardinality({i \in 1..Len(f.invoked) : f.invoked[i] = "B"})
                    IN  /\ runs'[f.run_id].status = "completed"
                        /\ Len(f.invoked) = f.max_steps
                        /\ f.returns = f.max_steps
                        /\ CountLines(f.execution_log, IsExecLine) = f.max_steps
                        /\ CountLines(f.execution_log, IsReqLine) = back
                        /\ Len(f.execution_log) = f.max_steps + back]_vars

C3_Witness ==
    \E c \in CallIds :
        /\ OnGraph(c, GLoop)
        /\ calls[c].pc = "returned"
        /\ calls[c].max_steps = MaxBudget
        /\ Len(calls[c].execution_log) > calls[c].max_steps
        /\ calls[c].invoked[MaxBudget - 1] = "B"

\* C4, as claimed: on the graph {A: stepA, B: stepB}, edge A->B, start A,
\* both steps returning nothing, the returned log is "Executing node: A",
\* "Transitioning from 'A' to 'B'", "Executing node: B", "Transitioning from
\* 'B' to 'None'", and the status is completed.
C4_TransitionsInLog ==
    [][\A c \in DOMAIN calls' :
          (/\ graph_exists(calls'[c].graph_id)
           /\ graphs[calls'[c].graph_id] = GChain
           /\ calls'[c].max_steps >= 2
           /\ ReturnsNow(c)) =>
              /\ runs'[calls'[c].run_id].status = "completed"
              /\ calls'[c].execution_log
                    = <<ExecLine("A"), TransLine("A", "B"),
                        ExecLine("B"), TransLine("B", None)>>]_vars

\* C4, amended: on that graph the returned log is exactly "Executing node:
\* A", "Executing node: B", and the status is completed; the transitions are
\* written to the diagnostic logger only, not to the execution log.
C4_ScenarioLog ==
    [][\A c \in DOMAIN calls' :
          (/\ graph_exists(calls'[c].graph_id)
           /\ graphs[calls'[c].graph_id] = GChain
           /\ calls'[c].max_steps >= 2
           /\ ReturnsNow(c)) =>
              /\ runs'[calls'[c].run_id].status = "completed"
              /\ calls'[c].execution_log = <<ExecLine("A"), ExecLine("B")>>]_vars

C4_Witness ==
    \E c \in CallIds :
        /\ OnGraph(c, GChain)
        /\ calls[c].pc = "returned"
        /\ calls[c].max_steps >= 2
        /\ runs[calls[c].run_id].status = "completed"
        /\ LogOf(runs[calls[c].run_id]) = <<ExecLine("A"), ExecLine("B")>>

\* Whether, for a source text, the first visit of "suggest" finds the score
\* computed by "check" too low and loops back.
LowInitialQuality(code) ==
    LET s == detect_issues(check_complexity(extract_functions(NewState(code)).state).state).state
    IN  suggest_improvements(s).result = RStr("check")

\* C5: a run of the sample code-review graph from "extract" with step budget
\* 200, on a source text whose functions have detected issues and a low
\* initial quality, executes the "end" node (finalize sets finalized) before
\* it ends, and ends completed with a non-empty suggestions list.
C5_SampleRunFinalizes ==
    \A c \in CallIds :
        (/\ calls[c].max_steps = TestMaxSteps
         /\ calls[c].pc = "returned"
         /\ calls[c].state.issues # <<>>
         /\ LowInitialQuality(calls[c].state.code_text)) =>
            /\ calls[c].state.finalized
            /\ "end" \in {calls[c].invoked[i] : i \in 1..Len(calls[c].invoked)}
            /\ calls[c].state.suggestions # <<>>
            /\ runs[calls[c].run_id].status = "completed"

\* C6: whenever a step returns a non-empty node id, the next node the run
\* executes is that node, whatever the default edge of the current node: the
\* engine moves to it, logs the request and, unless the budget is used up,
\* starts the next iteration on it.
C6_ExplicitNextWins ==
    [][\A c \in CallIds :
          (/\ StepReturnsNow(c)
           /\ calls'[c].last_result.kind = "str"
           /\ calls'[c].last_result.v # "") =>
              LET f == calls[c]
                  f2 == calls'[c]
                  v == f2.last_result.v
              IN  /\ f2.current_node = v
                  /\ IF f.steps = f.max_steps
                     THEN /\ f2.pc = "returned"
                          /\ f2.execution_log
                                = Append(f.execution_log, ReqLine(f.current_node, v))
                     ELSE /\ f2.steps = f.steps + 1
                          /\ f2.execution_log
                                = f.execution_log
                                    \o <<ReqLine(f.current_node, v), ExecLine(v)>>
                          /\ f2.pc = "awaiting" => Last(f2.invoked) = v
                          /\ f2.pc # "returned"]_vars

C6_Witness ==
    \E c \in CallIds :
        /\ OnGraph(c, GLoop)
        /\ DictGet(GLoop.edges, "B") = "B"
        /\ calls[c].last_result = RStr("A")
        /\ calls[c].pc = "awaiting"
        /\ calls[c].invoked = <<"A", "B", "A">>

\* C7: on a graph whose default edges form a simple chain from the start
\* node, with registered steps that return nothing and never fail, and a
\* budget of at least the chain's length, execute_graph invokes every node's
\* step exactly once, in edge order, and ends with the record completed.
C7_LinearCompletion ==
    [][\A c \in DOMAIN calls' :
          (/\ graph_exists(calls'[c].graph_id)
           /\ graphs[calls'[c].graph_id] = GChain
           /\ calls'[c].max_steps >= Cardinality(DOMAIN GChain.nodes)) =>
              /\ calls'[c].pc # "raised"
              /\ calls'[c].invoked
                    = SubSeq(<<"A", "B">>, 1, Len(calls'[c].invoked))
              /\ ReturnsNow(c) =>
                    /\ calls'[c].invoked = <<"A", "B">>
                    /\ runs'[calls'[c].run_id].status = "completed"]_vars

C7_Witness ==
    \E c \in CallIds :
        /\ OnGraph(c, GChain)
        /\ calls[c].max_steps = MaxBudget
        /\ calls[c].pc = "returned"
        /\ calls[c].invoked = <<"A", "B">>
        /\ calls[c].state.visits = 2

\* C8: execute_graph with a graph id that is not registered fails with the
\* graph-not-found error, invokes no step and leaves the run store as it
\* was: no record is added and the record of a supplied run id keeps its
\* status, state and log.
C8_UnknownGraphNoRecord ==
    [][\A c \in DOMAIN calls' \ CallIds :
          ~graph_exists(calls'[c].graph_id) =>
              /\ calls'[c].pc = "raised"
              /\ calls'[c].error = GraphNotFoundMsg
              /\ calls'[c].invoked = <<>>
              /\ runs' = runs
              /\ SubSeq(calls', 1, Len(calls)) = calls]_vars

C8_Witness ==
    \E c \in CallIds :
        /\ calls[c].error = GraphNotFoundMsg
        /\ calls[c].run_id \in RunIds
        /\ runs[calls[c].run_id].status = "created"
        /\ runs[calls[c].run_id].state = 0

\* C9: when execute_graph returns normally the record of its run id is
\* completed and refers to the very state object and execution log handed
\* back to the caller, and a get_run / GetRunState that follows answers with
\* that status, state and log.
C9_CompletionPersists ==
    [][\A c \in DOMAIN calls' :
          ReturnsNow(c) =>
              LET f == calls'[c]
                  rec == runs'[f.run_id]
              IN  /\ rec.status = "completed"
                  /\ rec.state = c
                  /\ rec.log = [ref |-> c, val |-> <<>>]
                  /\ get_run(runs', f.run_id) = <<rec>>
                  /\ get_run_state(runs', calls', f.run_id)
                        = [run_id |-> f.run_id, code |-> 200, status |-> "completed",
                           state |-> f.state, execution_log |-> f.execution_log,
                           again |-> FALSE]]_vars

C9_Witness ==
    \E c \in CallIds :
        /\ calls[c].pc = "returned"
        /\ resp.code = 200
        /\ resp.run_id = calls[c].run_id
        /\ resp.status = "completed"
        /\ resp.state = calls[c].state
        /\ resp.execution_log = calls[c].execution_log
        /\ Len(resp.execution_log) >= 2

\* C10: GetRunState fails only for an unknown run id: for every run id of
\* the run store, whatever the record's status (a placeholder whose state is
\* not set included), it answers with the record's fields.
C10_KnownRunNeverFails ==
    (resp.code # 0 /\ resp.run_id \in RunIds) =>
        /\ resp.code = 200
        /\ resp.status = runs[resp.run_id].status
        /\ resp.execution_log = LogOf(runs[resp.run_id])

\* C11: inspection is read-only and idempotent: a GetRunState request (and
\* the get_run it makes) changes neither the run store nor the graph store
\* nor any run's state object or log, and a request that directly follows a
\* request for the same completed run answers with the same status, state
\* and execution log.
C11_InspectionReadOnly ==
    [][resp'.code # 0 =>
          /\ runs' = runs
          /\ graphs' = graphs
          /\ calls' = calls
          /\ get_run(runs', resp'.run_id) = get_run(runs, resp'.run_id)
          /\ (resp'.again /\ resp.code = 200 /\ resp.status = "completed") =>
                /\ resp'.code = 200
                /\ resp'.status = resp.status
                /\ resp'.state = resp.state
                /\ resp'.execution_log = resp.execution_log]_vars

C11_Witness ==
    /\ resp.again
    /\ resp.code = 200
    /\ resp.status = "completed"
    /\ resp.state.visits >= 2
    /\ Len(resp.execution_log) >= 2
    /\ runs[resp.run_id].status = "completed"

\* Call c started a run and no other call that started a run has its run id.
SoleUser(c) ==
    /\ graph_exists(calls[c].graph_id)
    /\ \A d \in CallIds \ {c} :
          graph_exists(calls[d].graph_id) => calls[d].run_id # calls[c].run_id

\* The same run executed alone: from r, a frame and its record, the steps
\* hand back the values of results one after the other, and the step awaited
\* after the last of them raises if raises holds.
RECURSIVE SoloFrom(_, _, _, _)
SoloFrom(r, g, results, raises) ==
    IF r.f.pc # "awaiting" THEN r
    ELSE IF results # <<>>
    THEN LET o == CHOOSE o \in StepOutcomes(r.f.fn, r.f.state) : o.result = Head(results)
         IN  SoloFrom(LoopHead(AfterStep(r.f, o, g), r.rec, g, node_registry),
                      g, Tail(results), raises)
    ELSE IF raises
    THEN Raise([r.f EXCEPT !.state = Touch(@)], r.rec, StepErrorMsg(r.f.fn))
    ELSE r

SoloRun(f) ==
    LET g == graphs[f.graph_id]
        f0 == NewFrame(f.id, f.graph_id, f.run_id, f.max_steps, g.start_node_id,
                       NewState(f.state.code_text))
    IN  SoloFrom(LoopHead(f0, InitialRecord(f.graph_id, f.id), g, node_registry),
                 g, f.results, f.error[1] = "step raised")

\* C12: when execute_graph calls with distinct run ids (and their own state
\* objects) interleave at the suspension points of their steps, a step of
\* one call changes no other call's frame and no other run's record, each
\* run has at every moment, and so at its end, the status, the returned log
\* and the stored log it has when executed alone with the same step results,
\* and within a run at most one step callable is in progress: every callable
\* invoked before the current one has come back.
C12_RunsIsolated ==
    /\ [](\A c \in CallIds :
            SoleUser(c) =>
                LET f == calls[c]
                    solo == SoloRun(f)
                IN  /\ f.pc = solo.f.pc
                    /\ f.execution_log = solo.f.execution_log
                    /\ runs[f.run_id].status = solo.rec.status
                    /\ LogOf(runs[f.run_id])
                          = IF solo.rec.log.ref = 0 THEN solo.rec.log.val
                            ELSE solo.f.execution_log
                    /\ Len(f.invoked) - f.returns
                          = IF f.pc = "awaiting" \/ f.error[1] = "step raised"
                            THEN 1 ELSE 0)
    /\ [][\A c \in CallIds :
            (SoleUser(c) /\ SoleUser(c)') =>
                \/ /\ calls'[c] = calls[c]
                   /\ runs'[calls[c].run_id] = runs[calls[c].run_id]
                \/ /\ \A d \in CallIds \ {c} : calls'[d] = calls[d]
                   /\ \A r \in RunIds \ {calls[c].run_id} : runs'[r] = runs[r]]_vars

C12_Witness ==
    \E c, d \in CallIds :
        /\ c # d
        /\ SoleUser(c) /\ SoleUser(d)
        /\ calls[c].graph_id = calls[d].graph_id
        /\ calls[c].pc = "awaiting" /\ calls[c].returns = 1
        /\ calls[d].pc = "returned" /\ calls[d].returns >= 2
        /\ calls[d].id > calls[c].id

\* C13: a Run Record's log is append-only and in execution order: in every
\* step of the engine the log get_run shows for a run id has the log it
\* showed before as a prefix, and the "Executing node" entries of a run's
\* log name the nodes in the order in which they were executed.
C13_LogAppendOnly ==
    [][/\ \A r \in RunIds :
            LET old == LogOf(runs[r])
                new == LogIn(calls', runs'[r])
            IN  /\ Len(new) >= Len(old)
                /\ SubSeq(new, 1, Len(old)) = old
       /\ \A c \in DOMAIN calls' :
            LET f == calls'[c]
                execs == SelectSeq(f.execution_log, IsExecLine)
            IN  /\ Len(execs) >= Len(f.invoked)
                /\ \A i \in 1..Len(f.invoked) : execs[i] = ExecLine(f.invoked[i])]_vars

\* C14: when a step returns a structured result with a "next" field, the
\* next node is that field's value, whatever the default edge of the current
\* node; when the value is None or the empty string the run ends completed
\* without executing any further node, even if the current node has a
\* default edge.
C14_EmptyNextTerminates ==
    [][\A c \in CallIds :
          (/\ StepReturnsNow(c)
           /\ calls'[c].last_result.kind = "dict"
           /\ calls'[c].last_result.has_next) =>
              LET f == calls[c]
                  f2 == calls'[c]
                  v == f2.last_result.v
              IN  IF v \in {None, ""}
                  THEN /\ f2.pc = "returned"
                       /\ runs'[f.run_id].status = "completed"
                       /\ f2.steps = f.steps
                       /\ f2.execution_log = f.execution_log
                       /\ f2.invoked = f.invoked
                  ELSE f2.current_node = v]_vars

\* C15: for every registered graph, cyclic ones included, every behaviour of
\* steps that come back and every budget max_steps, execute_graph ends
\* (returns or raises) after at most max_steps step invocations, at that
\* moment the run's record is completed or failed, and the log never has
\* more than max_steps "Executing node" entries.
C15_BudgetTerminates ==
    /\ [](\A c \in CallIds :
            /\ calls[c].steps <= calls[c].max_steps
            /\ Len(calls[c].invoked) <= calls[c].max_steps
            /\ CountLines(calls[c].execution_log, IsExecLine) <= calls[c].max_steps)
    /\ [][\A c \in DOMAIN calls' :
            (ReturnsNow(c) \/ FailsNow(c)) =>
                runs'[calls'[c].run_id].status \in {"completed", "failed"}]_vars
    /\ \A c \in 1..MaxCalls :
            (c \in CallIds) ~> (c \in CallIds /\ calls[c].pc \in {"returned", "raised"})

C15_Witness ==
    \E c \in CallIds :
        /\ OnGraph(c, GLoop)
        /\ calls[c].pc = "returned"
        /\ calls[c].max_steps = MaxBudget
        /\ calls[c].steps = MaxBudget
        /\ CountLines(calls[c].execution_log, IsExecLine) = MaxBudget
        /\ calls[c].current_node # None
        /\ runs[calls[c].run_id].status = "completed"

\* C16: partial progress is visible to inspection: at every moment at which
\* a step callable for node n is in progress in a run, get_run for the run's
\* id returns a record in status running whose log has every line logged so
\* far and ends with "Executing node: n", and whose state is the run's state
\* object.
C16_ProgressVisible ==
    \A c \in CallIds :
        calls[c].pc = "awaiting" =>
            LET f == calls[c]
                run == get_run(runs, f.run_id)
            IN  /\ run # <<>>
                /\ run[1].status = "running"
                /\ LogOf(run[1]) = f.execution_log
                /\ Last(LogOf(run[1])) = ExecLine(f.current_node)
                /\ run[1].state = c
                /\ StateOf(run[1]) = f.state

\* The current node of frame f is a node id the node mapping of g lacks.
UnmappedCurrent(f, g) == f.current_node # None /\ f.current_node \notin DOMAIN g.nodes

\* C17, as claimed: graphs are registered without validation, and a run
\* fails with the unmapped-node error exactly when a node id that is no key
\* of the node mapping becomes the current node (as start node, default-edge
\* target or returned value).
C17_FailsWhenCurrent ==
    \A c \in CallIds :
        graph_exists(calls[c].graph_id) =>
            LET f == calls[c]
            IN  (f.pc = "raised" /\ f.error = NoFunctionMsg(f.current_node))
                    <=> UnmappedCurrent(f, graphs[f.graph_id])

\* C17, amended: graphs are registered without validation, and a run fails
\* with the unmapped-node error exactly when a node id that is no key of the
\* node mapping becomes the current node while step budget is left, so that
\* the loop starts an iteration on it; when it becomes current with the
\* budget used up the run ends completed; an unmapped edge target that never
\* becomes current fails nothing.
C17_LazyValidation ==
    [][\A c \in DOMAIN calls' :
          (graph_exists(calls'[c].graph_id) /\ (c \in CallIds => calls'[c] # calls[c])) =>
              LET f2 == calls'[c]
                  unmapped == UnmappedCurrent(f2, graphs[f2.graph_id])
                  budget_left == (IF c \in CallIds THEN calls[c].steps ELSE 0) < f2.max_steps
              IN  /\ (f2.pc = "raised" /\ f2.error = NoFunctionMsg(f2.current_node))
                        <=> (unmapped /\ budget_left)
                  /\ (unmapped /\ ~budget_left) =>
                        /\ f2.pc = "returned"
                        /\ runs'[f2.run_id].status = "completed"
                  /\ f2.error[1] = NoFunctionMsg(None)[1] =>
                        f2.error = NoFunctionMsg(f2.current_node)]_vars

C17_Witness ==
    /\ \E g \in GraphIds : graphs[g] = GStray
    /\ \E c \in CallIds :
          /\ OnGraph(c, GAny)
          /\ calls[c].pc = "returned"
          /\ calls[c].last_result = RNone
          /\ calls[c].current_node = "C"
          /\ "C" \notin DOMAIN GAny.nodes
          /\ runs[calls[c].run_id].status = "completed"

\* C18: Graph Definitions are immutable and never deleted: a step that
\* starts or advances an execute_graph call, creates a placeholder or serves
\* get_run leaves the graph store as it is, and in every step every graph
\* of the store stays in it with the same nodes, edges and start node; the
\* only change is create_graph adding one definition under a new id.
C18_GraphsImmutable ==
    [][/\ \A g \in GraphIds :
            /\ g \in 1..Len(graphs')
            /\ graphs'[g] = graphs[g]
       /\ (calls' # calls \/ runs' # runs \/ resp'.code # 0) => graphs' = graphs
       /\ graphs' # graphs =>
            /\ Len(graphs') = Len(graphs) + 1
            /\ runs' = runs /\ calls' = calls]_vars

C18_Witness ==
    /\ Len(graphs) >= 2
    /\ graphs[1] = GLoop
    /\ graphs[2] # GLoop
    /\ \E c \in CallIds :
          /\ calls[c].graph_id = 1
          /\ calls[c].pc = "returned"
          /\ calls[c].invoked = <<"A", "B", "A">>
    /\ \E r \in RunIds : runs[r].status = "created"
    /\ resp.code = 200

\* C19: a RunGraph request that is rejected before execution starts (unknown
\* graph id, or an initial_state the state schema rejects) leaves the run
\* store unchanged: no Run Record is added and no record is left in status
\* created.
C19_RejectedRunLeavesNoRecord ==
    [][\A c \in DOMAIN calls' \ CallIds :
          calls'[c].pc = "rejected" =>
              /\ runs' = runs
              /\ \A r \in 1..Len(runs') :
                    runs'[r].status = "created" =>
                        r \in RunIds /\ runs[r].status = "created"]_vars

\* C20: in every reachable state of the run store, status and log agree: a
\* record in status created has no state and an empty log; a record is in
\* status failed if and only if the last entry of its log is an "error"
\* line; a record in status running or completed has no "error" line.
C20_StatusLogConsistent ==
    \A r \in RunIds :
        LET rec == runs[r]
            log == LogOf(rec)
        IN  /\ rec.status = "created" => (rec.state = 0 /\ log = <<>>)
            /\ rec.status = "failed" <=> (log # <<>> /\ IsErrLine(Last(log)))
            /\ rec.status \in {"running", "completed"} => CountLines(log, IsErrLine) = 0

====
